---- MODULE Spec2Model ----
(***************************************************************************)
(* MindEase emotional analytics engine: backend/vector_db.py (registry,    *)
(* ingestion, semantic search, cohort analysis, crisis gate) behind the    *)
(* Flask routes of backend/api.py and the client of backend/integration.py *)
(*                                                                         *)
(* Numbers.  Similarities, distances and thresholds are fixed-point        *)
(* integers in units of 10^-6 (Unit = 1.0).  Embedding vectors are         *)
(* 2-dimensional integer tuples; the cosine of two vectors is computed     *)
(* exactly from dot product and squared norms and truncated to 6 decimals. *)
(***************************************************************************)
EXTENDS Integers, Sequences, FiniteSets, TLC

VARIABLES
    collection,   \* the ChromaDB collection "MindEase_Emotions", in insertion order
    now,          \* the wall clock read by datetime.now()
    response,     \* the response of the request being served, NoResponse between requests
    ingestLog,    \* history: the arguments and result of every successful ingest
    probe,        \* the argument a classifier is applied to, NoProbe when none is
    verdict       \* the classifier's result for probe, "none" before it has run

vars == <<collection, now, response, ingestLog, probe, verdict>>

-----------------------------------------------------------------------------
(* Bounds of the model *)

MaxEntries == 2    \* ingests per behaviour
MaxClock == 1      \* clock instants 0..MaxClock

-----------------------------------------------------------------------------
(* Fixed-point arithmetic *)

Unit == 10^6

Abs(x) == IF x < 0 THEN -x ELSE x

\* digit x is not too large for the next digit of the root: (20*root + x)*x <= cur
Fits(root, cur, x) == (20 * root + x) * x <= cur

\* the largest digit x with (20*root + x)*x <= cur (one step of the schoolbook
\* square root), found by bisection of 0..9
SqrtDigit(root, cur) ==
    IF Fits(root, cur, 5)
    THEN IF Fits(root, cur, 7)
         THEN IF Fits(root, cur, 9) THEN 9 ELSE IF Fits(root, cur, 8) THEN 8 ELSE 7
         ELSE IF Fits(root, cur, 6) THEN 6 ELSE 5
    ELSE IF Fits(root, cur, 2)
         THEN IF Fits(root, cur, 4) THEN 4 ELSE IF Fits(root, cur, 3) THEN 3 ELSE 2
         ELSE IF Fits(root, cur, 1) THEN 1 ELSE 0

\* one step of the square root of n/d: from the root found so far, its
\* remainder, and the remainder r of the long division of n by d, to the same
\* three with the next two decimal digits of n/d taken in
SqrtStep(root, rem, r, d) ==
    LET cur == rem * 100 + (r * 100) \div d
        x   == SqrtDigit(root, cur)
    IN  <<10 * root + x, cur - (20 * root + x) * x, (r * 100) % d>>

\* floor(sqrt(n/d) * 10^digits) for 0 <= n <= d, d > 0: long division of n by
\* d two decimal digits at a time, feeding the schoolbook square root
RECURSIVE SqrtSteps(_, _, _)
SqrtSteps(st, d, digits) ==
    IF digits = 0 THEN st[1]
    ELSE CHOOSE root \in {SqrtSteps(next, d, digits - 1) :
                             next \in {SqrtStep(st[1], st[2], st[3], d)}} : TRUE

SqrtRatio(n, d) == SqrtSteps(<<n \div d, 0, n % d>>, d, 6)

Dot(a, b) == a[1] * b[1] + a[2] * b[2]

\* cosine of the angle between two non-zero integer vectors, in units of 10^-6
Cosine(a, b) ==
    IF Dot(a, b) < 0
    THEN -SqrtRatio(Dot(a, b) * Dot(a, b), Dot(a, a) * Dot(b, b))
    ELSE SqrtRatio(Dot(a, b) * Dot(a, b), Dot(a, a) * Dot(b, b))

\* Python round(x, 4) on a value in units of 10^-6: nearest multiple of 10^-4,
\* a tie going to the even multiple
Round4(x) ==
    LET a == Abs(x)
        q == a \div 100
        m == a % 100
        up == m > 50 \/ (m = 50 /\ q % 2 = 1)
        r == (IF up THEN q + 1 ELSE q) * 100
    IN  IF x < 0 THEN -r ELSE r

-----------------------------------------------------------------------------
(* Emotion anchor registry: class EmotionalSeedVectors *)

\* dict order of ANCHORS, which all_emotions() returns
AnchorOrder ==
    <<"anger", "sadness", "anxiety", "burnout", "loneliness", "overwhelm", "crisis">>

ANCHORS ==
    [e \in {AnchorOrder[i] : i \in DOMAIN AnchorOrder} |->
        CASE e = "anger"      -> "I am furious, I want to scream, everything is unfair."
          [] e = "sadness"    -> "I feel empty, alone, and like I can't keep going."
          [] e = "anxiety"    -> "My heart is racing, I can't breathe, I'm going to fail."
          [] e = "burnout"    -> "I'm exhausted, nothing matters anymore, I can't do this."
          [] e = "loneliness" -> "Nobody understands me, I'm completely isolated and invisible."
          [] e = "overwhelm"  -> "Everything is too much, I'm drowning in responsibilities."
          [] e = "crisis"     -> "I don't want to exist anymore, there's no way out of this pain."]

\* str.lower() on one character
LowerChar(c) ==
    CASE c = "A" -> "a" [] c = "B" -> "b" [] c = "C" -> "c" [] c = "D" -> "d"
      [] c = "E" -> "e" [] c = "F" -> "f" [] c = "G" -> "g" [] c = "H" -> "h"
      [] c = "I" -> "i" [] c = "J" -> "j" [] c = "K" -> "k" [] c = "L" -> "l"
      [] c = "M" -> "m" [] c = "N" -> "n" [] c = "O" -> "o" [] c = "P" -> "p"
      [] c = "Q" -> "q" [] c = "R" -> "r" [] c = "S" -> "s" [] c = "T" -> "t"
      [] c = "U" -> "u" [] c = "V" -> "v" [] c = "W" -> "w" [] c = "X" -> "x"
      [] c = "Y" -> "y" [] c = "Z" -> "z" [] OTHER -> c

\* str.lower()
RECURSIVE Lower(_)
Lower(s) ==
    IF s = "" THEN ""
    ELSE LowerChar(SubSeq(s, 1, 1)) \o Lower(SubSeq(s, 2, Len(s)))

\* variant of get_anchor: the name is looked up as given
get_anchor_as_given(emotion) ==
    IF emotion \in DOMAIN ANCHORS THEN ANCHORS[emotion] ELSE ""

\* ANCHORS.get(emotion.lower(), "")
get_anchor(emotion) ==
    IF Lower(emotion) \in DOMAIN ANCHORS THEN ANCHORS[Lower(emotion)] ELSE ""

\* variant of all_emotions: the names in alphabetical order
all_emotions_sorted ==
    <<"anger", "anxiety", "burnout", "crisis", "loneliness", "overwhelm", "sadness">>

all_emotions == AnchorOrder

-----------------------------------------------------------------------------
(* Embedding provider (genai.embed_content): a deterministic map from text *)
(* to a vector.  The anchor phrases and the vent texts share one space.    *)

TxtFurious == "I am furious, I want to scream"
TxtNoWayOut == "I can't do this anymore, I see no way out of the pain"
TxtAlone == "I'm surrounded by people but feel completely alone"

Embedding(text) ==
    CASE text = ANCHORS["crisis"]     -> <<1, 0>>
      [] text = ANCHORS["anxiety"]    -> <<4, 3>>
      [] text = ANCHORS["sadness"]    -> <<3, 4>>
      [] text = ANCHORS["anger"]      -> <<0, 1>>
      [] text = ANCHORS["burnout"]    -> <<-3, 4>>
      [] text = ANCHORS["loneliness"] -> <<-4, 3>>
      [] text = ANCHORS["overwhelm"]  -> <<-1, 0>>
      [] text = TxtFurious            -> <<1, 7>>
      [] text = TxtNoWayOut           -> <<73, 24>>
      [] text = TxtAlone              -> <<-2, 1>>

-----------------------------------------------------------------------------
(* Vector store (ChromaDB collection, metric "hnsw:space": "cosine") *)

\* cosine distance as the store computes it; a zero vector is at distance 1
StoreDistance(a, b) ==
    IF Dot(a, a) = 0 \/ Dot(b, b) = 0 THEN Unit ELSE Unit - Cosine(a, b)

\* variant of the store's order: the farther entry comes first
NearerReversed(dist, i, j) == dist[i] > dist[j] \/ (dist[i] = dist[j] /\ i < j)

\* i comes before j in the nearest-first order of distances dist: smaller
\* distance first, equal distances in the store's own (insertion) order
Nearer(dist, i, j) == dist[i] < dist[j] \/ (dist[i] = dist[j] /\ i < j)

\* the indices of dist, nearest first: the entry that n - 1 others come
\* before is the n-th
Nearest(dist) ==
    CHOOSE order \in
        {[n \in DOMAIN dist |-> CHOOSE i \in DOMAIN dist : rank[i] = n] :
            rank \in {[i \in DOMAIN dist |->
                         1 + Cardinality({j \in DOMAIN dist : Nearer(dist, j, i)})]}} : TRUE

Min(a, b) == IF a < b THEN a ELSE b

\* the first k of the entries of coll in the order given, each with its
\* distance, as the parallel 'distances' and 'metadatas' lists
NearestK(coll, dist, order, k) ==
    [n \in 1..Min(k, Len(coll)) |->
        [distance |-> dist[order[n]], metadata |-> coll[order[n]].metadata]]

\* collection.query(query_embeddings=[q], n_results=k) for k > 0: the k
\* nearest entries, all of them when the collection holds fewer
Query(coll, q, k) ==
    CHOOSE results \in
        {NearestK(coll, dist, Nearest(dist), k) :
            dist \in {[i \in DOMAIN coll |-> StoreDistance(coll[i].embedding, q)]}} : TRUE

\* collection.get(where={"cohort_id": c}): every entry whose metadata matches
GetWhereCohort(coll, c) ==
    LET InCohort(e) == e.metadata["cohort_id"] = c
    IN  SelectSeq(coll, InCohort)

HasId(coll, id) == \E i \in DOMAIN coll : coll[i].id = id

-----------------------------------------------------------------------------
(* Clock and dictionaries *)

\* datetime.now().isoformat() at instant t
IsoFormat(t) == "2025-12-21T12:00:00.00000" \o ToString(t)

\* str(datetime.now().timestamp()) at instant t
TimestampStr(t) == "1766318400.00000" \o ToString(t)

EmptyDict == << >>

\* dict.get(key, default)
Get(d, key, default) == IF key \in DOMAIN d THEN d[key] ELSE default

\* a.update(b): the keys of both, b's value on a key they share
Update(a, b) ==
    [k \in DOMAIN a \cup DOMAIN b |-> IF k \in DOMAIN b THEN b[k] ELSE a[k]]

-----------------------------------------------------------------------------
(* class MindEaseVectorDB *)

PreviewLen == 50
RiskCritical == 950000
RiskHigh == 850000
RiskModerate == 750000
AlertCrisis == 700000
AlertAnger == 750000
AlertBurnout == 750000
AlertAnxiety == 700000
CrisisPool == 50

\* vent_text[:50] + "..." if len(vent_text) > 50 else vent_text
TextPreview(vent_text) ==
    IF Len(vent_text) > PreviewLen
    THEN SubSeq(vent_text, 1, PreviewLen) \o "..."
    ELSE vent_text

\* the metadata written with an entry: the four system fields, then
\* entry_metadata.update(metadata) when the caller's metadata is non-empty
EntryMetadata(user_id, cohort_id, vent_text, metadata, t) ==
    LET entry_metadata ==
            [user_id |-> user_id,
             cohort_id |-> cohort_id,
             timestamp |-> IsoFormat(t),
             text_preview |-> TextPreview(vent_text)]
    IN  IF DOMAIN metadata # {} THEN Update(entry_metadata, metadata)
        ELSE entry_metadata

\* f"{user_id}_{datetime.now().timestamp()}"
EntryId(user_id, t) == user_id \o "_" \o TimestampStr(t)

\* the record add_emotional_entry hands to collection.add
NewEntry(user_id, cohort_id, vent_text, metadata, t) ==
    [id |-> EntryId(user_id, t),
     embedding |-> Embedding(vent_text),
     document |-> vent_text,
     metadata |-> EntryMetadata(user_id, cohort_id, vent_text, metadata, t)]

\* variant of add_emotional_entry: a record whose id the collection already
\* holds replaces the stored one
add_emotional_entry_upsert(coll, user_id, cohort_id, vent_text, metadata, t, embedOk, dupRaises) ==
    IF ~embedOk
    THEN [ok |-> FALSE, error |-> "EmbeddingUnavailable", entry_id |-> "",
          coll |-> coll, embeds |-> 1, puts |-> 0]
    ELSE IF HasId(coll, EntryId(user_id, t))
    THEN [ok |-> TRUE, error |-> "", entry_id |-> EntryId(user_id, t),
          coll |-> [i \in DOMAIN coll |->
                       IF coll[i].id = EntryId(user_id, t)
                       THEN NewEntry(user_id, cohort_id, vent_text, metadata, t)
                       ELSE coll[i]],
          embeds |-> 1, puts |-> 1]
    ELSE [ok |-> TRUE, error |-> "", entry_id |-> EntryId(user_id, t),
          coll |-> Append(coll, NewEntry(user_id, cohort_id, vent_text, metadata, t)),
          embeds |-> 1, puts |-> 1]

\* variant of add_emotional_entry: the record is put, with an empty
\* vector, before the failure of the embedding call is raised
add_emotional_entry_put_before_raise(coll, user_id, cohort_id, vent_text, metadata, t, embedOk, dupRaises) ==
    IF ~embedOk
    THEN [ok |-> FALSE, error |-> "EmbeddingUnavailable", entry_id |-> "",
          coll |-> Append(coll, [NewEntry(user_id, cohort_id, vent_text, metadata, t)
                                    EXCEPT !.embedding = <<0, 0>>]),
          embeds |-> 1, puts |-> 1]
    ELSE IF HasId(coll, EntryId(user_id, t))
    THEN IF dupRaises
         THEN [ok |-> FALSE, error |-> "DuplicateID", entry_id |-> "",
               coll |-> coll, embeds |-> 1, puts |-> 1]
         ELSE [ok |-> TRUE, error |-> "", entry_id |-> EntryId(user_id, t),
               coll |-> coll, embeds |-> 1, puts |-> 1]
    ELSE [ok |-> TRUE, error |-> "", entry_id |-> EntryId(user_id, t),
          coll |-> Append(coll, NewEntry(user_id, cohort_id, vent_text, metadata, t)),
          embeds |-> 1, puts |-> 1]

\* add_emotional_entry.  embedOk: the embedding call succeeds.  dupRaises:
\* what collection.add does with an id the collection already holds; the
\* installed chromadb either raises or logs and drops the new record.
add_emotional_entry(coll, user_id, cohort_id, vent_text, metadata, t, embedOk, dupRaises) ==
    IF ~embedOk
    THEN [ok |-> FALSE, error |-> "EmbeddingUnavailable", entry_id |-> "",
          coll |-> coll, embeds |-> 1, puts |-> 0]
    ELSE IF HasId(coll, EntryId(user_id, t))
    THEN IF dupRaises
         THEN [ok |-> FALSE, error |-> "DuplicateID", entry_id |-> "",
               coll |-> coll, embeds |-> 1, puts |-> 1]
         ELSE [ok |-> TRUE, error |-> "", entry_id |-> EntryId(user_id, t),
               coll |-> coll, embeds |-> 1, puts |-> 1]
    ELSE [ok |-> TRUE, error |-> "", entry_id |-> EntryId(user_id, t),
          coll |-> Append(coll, NewEntry(user_id, cohort_id, vent_text, metadata, t)),
          embeds |-> 1, puts |-> 1]

\* variant of _calculate_risk_level: every bucket's lower bound is exclusive
calculate_risk_level_exclusive(similarity) ==
    IF similarity > RiskCritical THEN "CRITICAL"
    ELSE IF similarity > RiskHigh THEN "HIGH"
    ELSE IF similarity > RiskModerate THEN "MODERATE"
    ELSE "LOW"

\* _calculate_risk_level
calculate_risk_level(similarity) ==
    IF similarity >= RiskCritical THEN "CRITICAL"
    ELSE IF similarity >= RiskHigh THEN "HIGH"
    ELSE IF similarity >= RiskModerate THEN "MODERATE"
    ELSE "LOW"

\* variant of _assess_cohort_alert: the anger/burnout test comes first
assess_cohort_alert_warning_first(emotion_profile) ==
    IF Get(emotion_profile, "anger", 0) > AlertAnger
       \/ Get(emotion_profile, "burnout", 0) > AlertBurnout THEN "WARNING"
    ELSE IF Get(emotion_profile, "crisis", 0) > AlertCrisis THEN "URGENT"
    ELSE IF Get(emotion_profile, "anxiety", 0) > AlertAnxiety THEN "MONITOR"
    ELSE "STABLE"

\* _assess_cohort_alert
assess_cohort_alert(emotion_profile) ==
    IF Get(emotion_profile, "crisis", 0) > AlertCrisis THEN "URGENT"
    ELSE IF Get(emotion_profile, "anger", 0) > AlertAnger
            \/ Get(emotion_profile, "burnout", 0) > AlertBurnout THEN "WARNING"
    ELSE IF Get(emotion_profile, "anxiety", 0) > AlertAnxiety THEN "MONITOR"
    ELSE "STABLE"

\* the match emitted for one query result
Match(r) ==
    [cohort_id |-> r.metadata["cohort_id"],
     user_id |-> r.metadata["user_id"],
     similarity_score |-> Round4(Unit - r.distance),
     risk_level |-> calculate_risk_level(Unit - r.distance),
     timestamp |-> r.metadata["timestamp"],
     text_preview |-> Get(r.metadata, "text_preview", "")]

\* variant of the threshold filter: the comparison is turned round
FilterMatchesInverted(results, threshold) ==
    LET Passes(r) == Unit - r.distance <= threshold
    IN  CHOOSE matches \in {[n \in DOMAIN kept |-> Match(kept[n])] :
                               kept \in {SelectSeq(results, Passes)}} : TRUE

\* the matches of the query results whose similarity 1 - distance >= threshold
FilterMatches(results, threshold) ==
    LET Passes(r) == Unit - r.distance >= threshold
    IN  CHOOSE matches \in {[n \in DOMAIN kept |-> Match(kept[n])] :
                               kept \in {SelectSeq(results, Passes)}} : TRUE

\* get_top_emotions.  embedOk: the embedding call succeeds; storeOk: the
\* store answers the query.
get_top_emotions(coll, target_emotion, threshold, top_k, embedOk, storeOk) ==
    LET anchor_text == get_anchor(target_emotion)
    IN  IF anchor_text = ""
        THEN [ok |-> FALSE, error |-> "Unknown emotion: " \o target_emotion,
              value |-> << >>, embeds |-> 0, queries |-> 0]
        ELSE IF ~embedOk
        THEN [ok |-> FALSE, error |-> "EmbeddingUnavailable",
              value |-> << >>, embeds |-> 1, queries |-> 0]
        ELSE IF top_k <= 0
        THEN [ok |-> FALSE, error |-> "Number of requested results cannot be negative, or zero",
              value |-> << >>, embeds |-> 1, queries |-> 1]
        ELSE IF ~storeOk
        THEN [ok |-> FALSE, error |-> "StoreUnavailable",
              value |-> << >>, embeds |-> 1, queries |-> 1]
        ELSE [ok |-> TRUE, error |-> "",
              value |-> FilterMatches(Query(coll, Embedding(anchor_text), top_k), threshold),
              embeds |-> 1, queries |-> 1]

\* a vector of rationals: componentwise num[i] / den
Vec(num, den) == [num |-> num, den |-> den]

RECURSIVE SumEmbeddings(_)
SumEmbeddings(entries) ==
    IF entries = << >> THEN <<0, 0>>
    ELSE LET rest == SumEmbeddings(Tail(entries))
         IN  <<Head(entries).embedding[1] + rest[1], Head(entries).embedding[2] + rest[2]>>

\* np.mean(np.array(embeddings), axis=0)
Centroid(entries) == Vec(SumEmbeddings(entries), Len(entries))

\* _cosine_distance: 1.0 when a norm is zero, else 1 - dot / (norm1 * norm2).
\* The positive denominators of the two vectors cancel in the quotient.
cosine_distance(vec1, vec2) ==
    IF Dot(vec1.num, vec1.num) = 0 \/ Dot(vec2.num, vec2.num) = 0
    THEN Unit
    ELSE Unit - Cosine(vec1.num, vec2.num)

\* emotion_distances: for every anchor, round(1 - distance(centroid, anchor), 4)
EmotionProfile(centroid) ==
    [e \in DOMAIN ANCHORS |->
        Round4(Unit - cosine_distance(centroid, Vec(Embedding(get_anchor(e)), 1)))]

\* variant of the dominant emotion: the last key that has the greatest value
DominantLast(profile) ==
    LET i == CHOOSE n \in DOMAIN all_emotions :
                /\ \A m \in DOMAIN all_emotions :
                      profile[all_emotions[m]] <= profile[all_emotions[n]]
                /\ \A m \in (n + 1)..Len(all_emotions) :
                      profile[all_emotions[m]] < profile[all_emotions[n]]
    IN  all_emotions[i]

\* max(emotion_distances, key=emotion_distances.get): the first key, in the
\* order the keys were inserted, that has the greatest value
Dominant(profile) ==
    LET i == CHOOSE n \in DOMAIN all_emotions :
                /\ \A m \in DOMAIN all_emotions :
                      profile[all_emotions[m]] <= profile[all_emotions[n]]
                /\ \A m \in 1..(n - 1) :
                      profile[all_emotions[m]] < profile[all_emotions[n]]
    IN  all_emotions[i]

\* variant of analyze_cohort_health: the anchors are embedded before the
\* cohort is looked at
analyze_cohort_health_embed_first(coll, cohort_id, t, failAt, storeOk) ==
    LET results == GetWhereCohort(coll, cohort_id)
        profile == EmotionProfile(Centroid(results))
    IN  IF ~storeOk
        THEN [ok |-> FALSE, error |-> "StoreUnavailable", value |-> EmptyDict,
              embeds |-> 0, queries |-> 1]
        ELSE IF failAt # 0
        THEN [ok |-> FALSE, error |-> "EmbeddingUnavailable", value |-> EmptyDict,
              embeds |-> failAt, queries |-> 1]
        ELSE IF results = << >>
        THEN [ok |-> TRUE, error |-> "",
              value |-> [cohort_id |-> cohort_id,
                         status |-> "no_data",
                         message |-> "No emotional data found for this cohort"],
              embeds |-> Len(all_emotions), queries |-> 1]
        ELSE [ok |-> TRUE, error |-> "",
              value |-> [cohort_id |-> cohort_id,
                         total_entries |-> Len(results),
                         dominant_emotion |-> Dominant(profile),
                         emotion_profile |-> profile,
                         alert_level |-> assess_cohort_alert(profile),
                         timestamp |-> IsoFormat(t)],
              embeds |-> Len(all_emotions), queries |-> 1]

\* analyze_cohort_health.  failAt = 0: every embedding call succeeds;
\* failAt = n: the n-th anchor embedding call fails; storeOk: the store
\* answers the get.
analyze_cohort_health(coll, cohort_id, t, failAt, storeOk) ==
    LET results == GetWhereCohort(coll, cohort_id)
        profile == EmotionProfile(Centroid(results))
    IN  IF ~storeOk
        THEN [ok |-> FALSE, error |-> "StoreUnavailable", value |-> EmptyDict,
              embeds |-> 0, queries |-> 1]
        ELSE IF results = << >>
        THEN [ok |-> TRUE, error |-> "",
              value |-> [cohort_id |-> cohort_id,
                         status |-> "no_data",
                         message |-> "No emotional data found for this cohort"],
              embeds |-> 0, queries |-> 1]
        ELSE IF failAt # 0
        THEN [ok |-> FALSE, error |-> "EmbeddingUnavailable", value |-> EmptyDict,
              embeds |-> failAt, queries |-> 1]
        ELSE [ok |-> TRUE, error |-> "",
              value |-> [cohort_id |-> cohort_id,
                         total_entries |-> Len(results),
                         dominant_emotion |-> Dominant(profile),
                         emotion_profile |-> profile,
                         alert_level |-> assess_cohort_alert(profile),
                         timestamp |-> IsoFormat(t)],
              embeds |-> Len(all_emotions), queries |-> 1]

\* the flag emitted for one query result
Flag(r, t) ==
    [user_id |-> r.metadata["user_id"],
     cohort_id |-> r.metadata["cohort_id"],
     crisis_similarity |-> Round4(Unit - r.distance),
     timestamp |-> r.metadata["timestamp"],
     text_preview |-> Get(r.metadata, "text_preview", ""),
     intervention_required |-> TRUE,
     flagged_at |-> IsoFormat(t)]

\* variant of the gate's filter: a similarity equal to the threshold passes
FilterFlagsInclusive(results, similarity_threshold, t) ==
    LET Passes(r) == Unit - r.distance >= similarity_threshold
    IN  CHOOSE flags \in {[n \in DOMAIN kept |-> Flag(kept[n], t)] :
                             kept \in {SelectSeq(results, Passes)}} : TRUE

\* the flags of the query results whose similarity 1 - distance > threshold
FilterFlags(results, similarity_threshold, t) ==
    LET Passes(r) == Unit - r.distance > similarity_threshold
    IN  CHOOSE flags \in {[n \in DOMAIN kept |-> Flag(kept[n], t)] :
                             kept \in {SelectSeq(results, Passes)}} : TRUE

\* variant of flag_for_human_intervention: a failed store query counts as
\* a query without results
flag_for_human_intervention_fail_open(coll, similarity_threshold, sentiment_threshold, t, embedOk, storeOk) ==
    IF ~embedOk
    THEN [ok |-> FALSE, error |-> "EmbeddingUnavailable", value |-> << >>,
          embeds |-> 1, queries |-> 0]
    ELSE IF ~storeOk
    THEN [ok |-> TRUE, error |-> "", value |-> << >>,
          embeds |-> 1, queries |-> 1]
    ELSE [ok |-> TRUE, error |-> "",
          value |-> FilterFlags(Query(coll, Embedding(get_anchor("crisis")), CrisisPool),
                                similarity_threshold, t),
          embeds |-> 1, queries |-> 1]

\* flag_for_human_intervention; sentiment_threshold is accepted and not
\* read.  embedOk: the embedding call succeeds; storeOk: the store answers
\* the query.
flag_for_human_intervention(coll, similarity_threshold, sentiment_threshold, t, embedOk, storeOk) ==
    IF ~embedOk
    THEN [ok |-> FALSE, error |-> "EmbeddingUnavailable", value |-> << >>,
          embeds |-> 1, queries |-> 0]
    ELSE IF ~storeOk
    THEN [ok |-> FALSE, error |-> "StoreUnavailable", value |-> << >>,
          embeds |-> 1, queries |-> 1]
    ELSE [ok |-> TRUE, error |-> "",
          value |-> FilterFlags(Query(coll, Embedding(get_anchor("crisis")), CrisisPool),
                                similarity_threshold, t),
          embeds |-> 1, queries |-> 1]

\* get_stats.  storeOk: the store answers the count.
get_stats(coll, storeOk) ==
    IF ~storeOk
    THEN [ok |-> FALSE, error |-> "StoreUnavailable", value |-> EmptyDict,
          embeds |-> 0, queries |-> 1]
    ELSE [ok |-> TRUE, error |-> "",
          value |-> [total_entries |-> Len(coll),
                     collection_name |-> "MindEase_Emotions",
                     distance_metric |-> "cosine"],
          embeds |-> 0, queries |-> 1]

-----------------------------------------------------------------------------
(* Flask routes of api.py and the client of integration.py *)

\* hashlib.sha256(s.encode()).hexdigest()[:16]
Sha256Hex16(s) ==
    CASE s = "alice"            -> "2bd806c97f0e00af"
      [] s = "bob"              -> "81b637d8fcd2c6da"
      [] s = "2bd806c97f0e00af" -> "dae8a5040273c4e7"
      [] s = "81b637d8fcd2c6da" -> "9437d82540b2109e"

hash_user_id(raw_user_id) == Sha256Hex16(raw_user_id)

\* POST /api/vent with request body data, handled at instant t
add_vent(coll, data, t, embedOk, dupRaises) ==
    IF ~({"user_id", "cohort_id", "text"} \subseteq DOMAIN data)
    THEN [status |-> 400, ok |-> FALSE, coll |-> coll, embeds |-> 0, queries |-> 0,
          body |-> [success |-> FALSE,
                    error |-> "Missing required fields: user_id, cohort_id, text"]]
    ELSE LET hashed_user_id == hash_user_id(data["user_id"])
             r == add_emotional_entry(coll, hashed_user_id, data["cohort_id"],
                                      data["text"], Get(data, "metadata", EmptyDict),
                                      t, embedOk, dupRaises)
         IN  IF r.ok
             THEN [status |-> 200, ok |-> TRUE, coll |-> r.coll,
                   embeds |-> r.embeds, queries |-> r.puts,
                   body |-> [success |-> TRUE, entry_id |-> r.entry_id,
                             timestamp |-> IsoFormat(t)]]
             ELSE [status |-> 500, ok |-> FALSE, coll |-> r.coll,
                   embeds |-> r.embeds, queries |-> r.puts,
                   body |-> [success |-> FALSE, error |-> r.error]]

\* the thresholds GET /api/crisis/check passes to the gate
RouteSimilarity == 900000
RouteSentiment == -800000

\* the payload log_emotional_entry posts, built at client instant tc
Payload(user_name, cohort_id, vent_text, mood_label, session_id, tc) ==
    [user_id |-> Sha256Hex16(user_name),
     cohort_id |-> cohort_id,
     text |-> vent_text,
     metadata |-> [mood_label |-> mood_label,
                   session_id |-> session_id,
                   timestamp |-> IsoFormat(tc)]]

\* what the caller of an operation gets back and what the operation cost:
\* the request's arguments, the HTTP status (200, or 500 with
\* {"success": False, "error": ...} when the engine call raised), the JSON
\* body, and the number of embedding calls and of store calls made; fault
\* tells which gateway calls were set to fail while the operation ran
Respond(op, request, fault, r, body) ==
    [op |-> op,
     request |-> request,
     fault |-> fault,
     status |-> IF r.ok THEN 200 ELSE 500,
     body |-> IF r.ok THEN body ELSE [success |-> FALSE, error |-> r.error],
     embeds |-> r.embeds,
     queries |-> r.queries]

-----------------------------------------------------------------------------
(* Inputs *)

Cohorts == {"C1", "C2", "C3"}

\* request bodies posted to /api/vent
VentBodies ==
    { [user_id |-> "alice", cohort_id |-> "C1", text |-> TxtFurious,
       metadata |-> [mood_label |-> "Anxious"]],
      [user_id |-> "alice", cohort_id |-> "C1", text |-> ANCHORS["crisis"]],
      [user_id |-> "bob", cohort_id |-> "C2", text |-> TxtNoWayOut,
       metadata |-> [user_id |-> "bob", cohort_id |-> "C1"]],
      [user_id |-> "alice", cohort_id |-> "C2", text |-> ANCHORS["anxiety"],
       metadata |-> [text_preview |-> "", timestamp |-> "yesterday"]],
      [user_id |-> "bob", cohort_id |-> "C2", text |-> ANCHORS["overwhelm"],
       metadata |-> EmptyDict],
      [user_id |-> "bob", cohort_id |-> "C2"] }

EmotionNames == {"anger", "crisis", "Crisis", "joy", ""}
\* thresholds of a search request: 0.0, 0.8, 1.0, and -0.5 and 1.5 outside [0, 1]
Thresholds == {-500000, 0, 800000, 1000000, 1500000}
TopKs == {0, 1, 10}
GateThresholds == {800000, 850000, 1000000}

-----------------------------------------------------------------------------
(* State machine *)

NoProbe == [kind |-> "none"]

\* the gateway calls set to fail during one operation: embed = n > 0 when
\* the n-th embedding call fails, store when the store call fails
Fault(embed, store) == [embed |-> embed, store |-> store]

NoResponse ==
    [op |-> "none", request |-> EmptyDict, fault |-> Fault(0, FALSE), status |-> 0,
     body |-> EmptyDict, embeds |-> 0, queries |-> 0]

Init ==
    /\ collection = << >>
    /\ now = 0
    /\ response = NoResponse
    /\ ingestLog = << >>
    /\ probe = NoProbe
    /\ verdict = "none"

\* time passes
Tick ==
    /\ now < MaxClock
    /\ now' = now + 1
    /\ UNCHANGED <<collection, response, ingestLog, probe, verdict>>

\* the effect of one POST /api/vent on the state
HandleVent(data, embedOk, dupRaises) ==
    \E r \in {add_vent(collection, data, now, embedOk, dupRaises)} :
        /\ collection' = r.coll
        /\ response' = [op |-> "add_vent", request |-> data,
                        fault |-> Fault(IF embedOk THEN 0 ELSE 1, FALSE),
                        status |-> r.status,
                        body |-> r.body, embeds |-> r.embeds, queries |-> r.queries]
        /\ ingestLog' = IF r.ok
                        THEN Append(ingestLog,
                                    [raw_user_id |-> data["user_id"],
                                     user_id |-> hash_user_id(data["user_id"]),
                                     cohort_id |-> data["cohort_id"],
                                     metadata |-> Get(data, "metadata", EmptyDict),
                                     text |-> data["text"],
                                     at |-> now,
                                     entry_id |-> r.body["entry_id"]])
                        ELSE ingestLog
        /\ UNCHANGED <<now, probe, verdict>>

\* a caller posts a request body to /api/vent
AddVent ==
    /\ response = NoResponse
    /\ Len(ingestLog) < MaxEntries
    /\ \E data \in VentBodies, embedOk \in BOOLEAN, dupRaises \in BOOLEAN :
          HandleVent(data, embedOk, dupRaises)

\* the React integration logs an entry: it builds the payload at the
\* client's instant tc and posts it
LogEmotionalEntry ==
    /\ response = NoResponse
    /\ Len(ingestLog) < MaxEntries
    /\ \E tc \in {now - 1, now} \cap Nat, embedOk \in BOOLEAN, dupRaises \in BOOLEAN :
          HandleVent(Payload("alice", "C1", TxtAlone, "Overwhelmed", "s1", tc),
                     embedOk, dupRaises)

\* POST /api/search/emotion
SearchByEmotion ==
    /\ response = NoResponse
    /\ \E emotion \in EmotionNames, threshold \in Thresholds, top_k \in TopKs,
          embedOk \in BOOLEAN, storeOk \in BOOLEAN :
          \E r \in {get_top_emotions(collection, emotion, threshold, top_k,
                                     embedOk, storeOk)} :
              response' = Respond("search_by_emotion",
                                  [emotion |-> emotion, threshold |-> threshold,
                                   top_k |-> top_k],
                                  Fault(IF embedOk THEN 0 ELSE 1, ~storeOk),
                                  r,
                                  [emotion |-> emotion, threshold |-> threshold,
                                   matches |-> r.value, count |-> Len(r.value)])
    /\ UNCHANGED <<collection, now, ingestLog, probe, verdict>>

\* GET /api/cohort/<cohort_id>/health
GetCohortHealth ==
    /\ response = NoResponse
    /\ \E cohort_id \in Cohorts, failAt \in {0, 1, Len(all_emotions)},
          storeOk \in BOOLEAN :
          \E r \in {analyze_cohort_health(collection, cohort_id, now, failAt, storeOk)} :
              response' = Respond("get_cohort_health", [cohort_id |-> cohort_id],
                                  Fault(failAt, ~storeOk), r, r.value)
    /\ UNCHANGED <<collection, now, ingestLog, probe, verdict>>

\* GET /api/crisis/check: the gate at the route's fixed thresholds
CheckCrisisFlags ==
    /\ response = NoResponse
    /\ \E embedOk \in BOOLEAN, storeOk \in BOOLEAN :
          \E r \in {flag_for_human_intervention(collection, RouteSimilarity,
                                                RouteSentiment, now, embedOk, storeOk)} :
              response' = Respond("check_crisis_flags",
                                  [similarity_threshold |-> RouteSimilarity],
                                  Fault(IF embedOk THEN 0 ELSE 1, ~storeOk),
                                  r,
                                  [flagged_users |-> r.value, count |-> Len(r.value),
                                   timestamp |-> IsoFormat(now)])
    /\ UNCHANGED <<collection, now, ingestLog, probe, verdict>>

\* db.flag_for_human_intervention called with a threshold of the caller's
\* choice (as test_vector_db.py does)
FlagForHumanIntervention ==
    /\ response = NoResponse
    /\ \E threshold \in GateThresholds, embedOk \in BOOLEAN, storeOk \in BOOLEAN :
          \E r \in {flag_for_human_intervention(collection, threshold,
                                                RouteSentiment, now, embedOk, storeOk)} :
              response' = Respond("flag_for_human_intervention",
                                  [similarity_threshold |-> threshold],
                                  Fault(IF embedOk THEN 0 ELSE 1, ~storeOk),
                                  r,
                                  [flagged_users |-> r.value])
    /\ UNCHANGED <<collection, now, ingestLog, probe, verdict>>

\* GET /api/emotions/anchors
GetEmotionAnchors ==
    /\ response = NoResponse
    /\ response' = [op |-> "get_emotion_anchors", request |-> EmptyDict,
                    fault |-> Fault(0, FALSE), status |-> 200,
                    body |-> [emotions |-> all_emotions, anchors |-> ANCHORS],
                    embeds |-> 0, queries |-> 0]
    /\ UNCHANGED <<collection, now, ingestLog, probe, verdict>>

\* GET /api/stats
GetDatabaseStats ==
    /\ response = NoResponse
    /\ \E storeOk \in BOOLEAN :
          \E r \in {get_stats(collection, storeOk)} :
              response' = Respond("get_database_stats", EmptyDict,
                                  Fault(0, ~storeOk), r, r.value)
    /\ UNCHANGED <<collection, now, ingestLog, probe, verdict>>

\* the caller takes the response; the next request can be served
Receive ==
    /\ response # NoResponse
    /\ response' = NoResponse
    /\ UNCHANGED <<collection, now, ingestLog, probe, verdict>>

Next ==
    \/ Tick
    \/ Receive
    \/ AddVent
    \/ LogEmotionalEntry
    \/ SearchByEmotion
    \/ GetCohortHealth
    \/ CheckCrisisFlags
    \/ FlagForHumanIntervention
    \/ GetEmotionAnchors
    \/ GetDatabaseStats

Spec == Init /\ [][Next]_vars

-----------------------------------------------------------------------------
(* The two classifiers on their own: the argument is drawn from a set that *)
(* holds every threshold of the tables, its neighbours and values far off  *)

SimilarityProbes ==
    {-1000000, -200000, 0, 500000, 700000, 749900, 749999, 750000, 750001,
     800000, 849900, 849999, 850000, 850001, 900000, 949900, 949999, 950000,
     950001, 1000000}

ProfileLevels == {0, 700000, 700100, 750000, 750100, 800000, 900000}

\* profiles over the seven anchors, and profiles that lack the key "crisis"
ProfileProbes ==
    { [e \in DOMAIN ANCHORS |->
          CASE e = "crisis" -> c [] e = "anger" -> a [] e = "burnout" -> b
            [] e = "anxiety" -> x [] OTHER -> 0] :
        c \in ProfileLevels, a \in ProfileLevels, b \in ProfileLevels, x \in ProfileLevels }
    \cup
    { [e \in {"anger", "anxiety"} |-> IF e = "anger" THEN a ELSE x] :
        a \in ProfileLevels, x \in ProfileLevels }

InitClassify ==
    /\ collection = << >>
    /\ now = 0
    /\ response = NoResponse
    /\ ingestLog = << >>
    /\ verdict = "none"
    /\ probe \in {[kind |-> "similarity", similarity |-> s] : s \in SimilarityProbes}
                 \cup {[kind |-> "profile", emotion_profile |-> p] : p \in ProfileProbes}

CalculateRiskLevel ==
    /\ probe.kind = "similarity"
    /\ verdict = "none"
    /\ verdict' = calculate_risk_level(probe.similarity)
    /\ UNCHANGED <<collection, now, response, ingestLog, probe>>

AssessCohortAlert ==
    /\ probe.kind = "profile"
    /\ verdict = "none"
    /\ verdict' = assess_cohort_alert(probe.emotion_profile)
    /\ UNCHANGED <<collection, now, response, ingestLog, probe>>

NextClassify ==
    \/ CalculateRiskLevel
    \/ AssessCohortAlert

SpecClassify == InitClassify /\ [][NextClassify]_vars

-----------------------------------------------------------------------------
(* Properties of the classifiers *)

RiskRank(level) ==
    CASE level = "LOW" -> 0 [] level = "MODERATE" -> 1 [] level = "HIGH" -> 2
      [] level = "CRITICAL" -> 3

\* C3: the risk level is a total, non-overlapping, monotonic function of the
\* similarity s: s >= 0.95 CRITICAL, 0.85 <= s < 0.95 HIGH, 0.75 <= s < 0.85
\* MODERATE, s < 0.75 LOW; a larger similarity never has a lower level.
C3_RiskBuckets ==
    (probe.kind = "similarity" /\ verdict # "none") =>
        LET s == probe.similarity
        IN  /\ verdict \in {"LOW", "MODERATE", "HIGH", "CRITICAL"}
            /\ (s >= 950000) <=> (verdict = "CRITICAL")
            /\ (850000 <= s /\ s < 950000) <=> (verdict = "HIGH")
            /\ (750000 <= s /\ s < 850000) <=> (verdict = "MODERATE")
            /\ (s < 750000) <=> (verdict = "LOW")
            /\ \A s2 \in SimilarityProbes :
                  s2 >= s => RiskRank(calculate_risk_level(s2)) >= RiskRank(verdict)

\* a similarity exactly on a bucket's lower bound has been classified into that bucket
C3_Witness ==
    /\ probe.kind = "similarity"
    /\ probe.similarity = 850000
    /\ verdict = "HIGH"

\* C2: the alert level is decided in priority order, first match winning:
\* crisis > 0.7 URGENT; else anger > 0.75 or burnout > 0.75 WARNING; else
\* anxiety > 0.7 MONITOR; else STABLE; all comparisons strict, exactly one level.
C2_AlertPriority ==
    (probe.kind = "profile" /\ verdict # "none") =>
        LET p == probe.emotion_profile
            crisis == Get(p, "crisis", 0)
            anger == Get(p, "anger", 0)
            burnout == Get(p, "burnout", 0)
            anxiety == Get(p, "anxiety", 0)
            urgent == crisis > 700000
            warning == ~urgent /\ (anger > 750000 \/ burnout > 750000)
            monitor == ~urgent /\ ~warning /\ anxiety > 700000
        IN  /\ verdict \in {"URGENT", "WARNING", "MONITOR", "STABLE"}
            /\ urgent <=> (verdict = "URGENT")
            /\ warning <=> (verdict = "WARNING")
            /\ monitor <=> (verdict = "MONITOR")
            /\ (~urgent /\ ~warning /\ ~monitor) <=> (verdict = "STABLE")

\* the cohort of the spec's example, crisis 0.8 and anger 0.9, has been assessed URGENT
C2_Witness ==
    /\ probe.kind = "profile"
    /\ Get(probe.emotion_profile, "crisis", 0) = 800000
    /\ Get(probe.emotion_profile, "anger", 0) = 900000
    /\ verdict = "URGENT"

-----------------------------------------------------------------------------
(* Properties of ingestion *)

\* the value the engine computes for system field k from the arguments of
\* the ingest recorded as log
SystemValue(log, k) ==
    CASE k = "user_id" -> log.user_id
      [] k = "cohort_id" -> log.cohort_id
      [] k = "timestamp" -> IsoFormat(log.at)
      [] k = "text_preview" -> TextPreview(log.text)

SystemKeys == {"user_id", "cohort_id", "timestamp", "text_preview"}

\* C4: on a key collision between the caller's metadata and a system field
\* (user_id, cohort_id, timestamp, text_preview) the stored entry holds the
\* value the engine computed from the ingest's arguments.
C4_SystemFieldsWin ==
    Len(collection) = Len(ingestLog) =>
        \A n \in DOMAIN ingestLog :
            \A k \in SystemKeys \cap DOMAIN ingestLog[n].metadata :
                collection[n].metadata[k] = SystemValue(ingestLog[n], k)

\* C5: any two successful ingests return distinct entry ids, and after n
\* successful ingests the store holds exactly n entries.
C5_UniqueEntryIds ==
    /\ \A m, n \in DOMAIN ingestLog :
          m # n => ingestLog[m].entry_id # ingestLog[n].entry_id
    /\ Len(collection) = Len(ingestLog)

\* C6: every entry stored through POST /api/vent has as its stored user id
\* the hash of the raw user_id of the request that created it.
C6_StoredUserIdIsHashed ==
    \A i \in DOMAIN collection :
        \E n \in DOMAIN ingestLog :
            /\ ingestLog[n].entry_id = collection[i].id
            /\ collection[i].metadata["user_id"] = hash_user_id(ingestLog[n].raw_user_id)

\* the number of successful ingests whose cohort_id argument was c
IngestsInto(c) == Cardinality({n \in DOMAIN ingestLog : ingestLog[n].cohort_id = c})

\* C7: the total_entries reported for cohort c equals the number of
\* successful ingests whose cohort_id argument was c (no_data when there
\* was none).
C7_CohortCountsItsIngests ==
    (response.op = "get_cohort_health" /\ response.status = 200) =>
        IF "total_entries" \in DOMAIN response.body
        THEN response.body["total_entries"] = IngestsInto(response.request["cohort_id"])
        ELSE IngestsInto(response.request["cohort_id"]) = 0

-----------------------------------------------------------------------------
(* Properties of cohort analysis and of search *)

\* C8: analysing a cohort that has no stored entry does not fail when the
\* store answers: the result is status no_data with the cohort id, without
\* emotion profile, dominant emotion, alert level or total-entries field,
\* and no embedding call is made, whether or not embedding is available.
C8_EmptyCohortNoData ==
    (/\ response.op = "get_cohort_health"
     /\ ~response.fault.store
     /\ \A i \in DOMAIN collection :
           collection[i].metadata["cohort_id"] # response.request["cohort_id"]) =>
        /\ response.status = 200
        /\ "status" \in DOMAIN response.body
        /\ response.body["status"] = "no_data"
        /\ response.body["cohort_id"] = response.request["cohort_id"]
        /\ DOMAIN response.body
              \cap {"emotion_profile", "dominant_emotion", "alert_level", "total_entries"} = {}
        /\ response.embeds = 0

\* a cohort never seen has been analysed while the store holds entries of
\* other cohorts
C8_Witness ==
    /\ response.op = "get_cohort_health"
    /\ response.request["cohort_id"] = "C3"
    /\ collection # << >>
    /\ response.status = 200
    /\ response.body["status"] = "no_data"

\* the search was refused because the emotion name is unknown
RefusedAsUnknown ==
    /\ response.status = 500
    /\ response.body["error"] = "Unknown emotion: " \o response.request["emotion"]

\* C9 as stated: a search for any name that is not literally one of the seven
\* registered names fails as unknown, without embedding call or store query.
C9_OnlyRegisteredSpellings ==
    (/\ response.op = "search_by_emotion"
     /\ response.request["emotion"] \notin DOMAIN ANCHORS) =>
        /\ RefusedAsUnknown
        /\ response.embeds = 0
        /\ response.queries = 0

\* C9 as amended: names are compared in lower case.  A search for a name
\* whose lower-case form is not registered fails as unknown, without
\* embedding call or store query, and get_anchor returns the empty phrase for
\* it (it does not fail); a name whose lower-case form is registered is never
\* refused as unknown and get_anchor returns that anchor's phrase.
C9_UnknownEmotionRefused ==
    response.op = "search_by_emotion" =>
        LET name == response.request["emotion"]
        IN  IF Lower(name) \in DOMAIN ANCHORS
            THEN /\ ~RefusedAsUnknown
                 /\ get_anchor(name) = ANCHORS[Lower(name)]
            ELSE /\ RefusedAsUnknown
                 /\ response.embeds = 0
                 /\ response.queries = 0
                 /\ get_anchor(name) = ""

\* a search for an unregistered name has been refused
C9_Witness ==
    /\ response.op = "search_by_emotion"
    /\ response.request["emotion"] = "joy"
    /\ RefusedAsUnknown
    /\ response.embeds = 0

\* a is a subsequence of b: the elements of a occur in b in the same order
RECURSIVE IsSubseq(_, _)
IsSubseq(a, b) ==
    IF a = << >> THEN TRUE
    ELSE IF b = << >> THEN FALSE
    ELSE IF Head(a) = Head(b) THEN IsSubseq(Tail(a), Tail(b))
    ELSE IsSubseq(a, Tail(b))

\* the matches a search of the present store returns for the emotion and
\* top_k of the served request at threshold t
MatchesAt(t) ==
    get_top_emotions(collection, response.request["emotion"], t,
                     response.request["top_k"], TRUE, TRUE).value

\* C10: for a fixed store, emotion and top_k, raising the threshold only
\* removes matches: the result at the higher threshold is contained in the
\* result at the lower one, in the same relative order.
C10_ThresholdMonotone ==
    (response.op = "search_by_emotion" /\ response.status = 200) =>
        \A t \in Thresholds :
            /\ t < response.request["threshold"] =>
                  IsSubseq(response.body["matches"], MatchesAt(t))
            /\ t > response.request["threshold"] =>
                  IsSubseq(MatchesAt(t), response.body["matches"])

\* a search returned several matches of which a higher threshold keeps some
\* and drops others
C10_Witness ==
    /\ response.op = "search_by_emotion"
    /\ response.status = 200
    /\ Len(response.body["matches"]) >= 2
    /\ \E t \in Thresholds :
          /\ t > response.request["threshold"]
          /\ MatchesAt(t) # << >>
          /\ Len(MatchesAt(t)) < Len(response.body["matches"])

-----------------------------------------------------------------------------
(* The crisis gate on stores as large as its candidate pool.  The store is *)
(* filled the way generate_simulation_data fills it: add_emotional_entry   *)
(* is called directly, once per simulated user.                            *)

\* f"eng_user_{i:03d}"
SimUser(i) ==
    "eng_user_" \o (IF i < 10 THEN "00" ELSE IF i < 100 THEN "0" ELSE "") \o ToString(i)

\* the collection after add_emotional_entry has been called at instant 0
\* for users 1, 2, ... with these texts: the users differ, so do the ids,
\* and every entry is appended
Seeded(texts) ==
    [i \in DOMAIN texts |->
        NewEntry(SimUser(i), "Engineering_2024", texts[i],
                 [department |-> "Engineering", year |-> "2024"], 0)]

Rep(text, n) == [i \in 1..n |-> text]

\* a entries that repeat the crisis anchor (similarity 1.0), b entries at
\* similarity 0.949976 and c entries at similarity 0.8 to it
Corpus(a, b, c) ==
    Rep(ANCHORS["crisis"], a) \o Rep(TxtNoWayOut, b) \o Rep(ANCHORS["anxiety"], c)

InitPool ==
    /\ \E a \in {0, 10}, b \in {0, 1, 41}, c \in {0, 1, 45} :
          collection = Seeded(Corpus(a, b, c))
    /\ now = 0
    /\ response = NoResponse
    /\ ingestLog = << >>
    /\ probe = NoProbe
    /\ verdict = "none"

NextPool ==
    \/ Tick
    \/ Receive
    \/ CheckCrisisFlags
    \/ FlagForHumanIntervention

SpecPool == InitPool /\ [][NextPool]_vars

\* the similarity of every stored entry to the crisis anchor
CrisisSimilarity ==
    [i \in DOMAIN collection |->
        Unit - StoreDistance(collection[i].embedding, Embedding(ANCHORS["crisis"]))]

\* j is nearer to the crisis anchor than i
Before(sim, j, i) == sim[j] > sim[i] \/ (sim[j] = sim[i] /\ j < i)

\* the entries among the 50 nearest neighbours of the crisis anchor
CandidatePool(sim) ==
    {i \in DOMAIN sim : Cardinality({j \in DOMAIN sim : Before(sim, j, i)}) < 50}

GateServed ==
    /\ response.op \in {"check_crisis_flags", "flag_for_human_intervention"}
    /\ response.status = 200

-----------------------------------------------------------------------------
(* Properties of ingestion followed by search *)

Last(seq) == seq[Len(seq)]

\* the default top_k of POST /api/search/emotion
DefaultTopK == 10

\* the match a search emits for stored entry e when e is at distance 0
ExactMatchOf(e) ==
    [cohort_id |-> e.metadata["cohort_id"],
     user_id |-> e.metadata["user_id"],
     similarity_score |-> Unit,
     risk_level |-> "CRITICAL",
     timestamp |-> e.metadata["timestamp"],
     text_preview |-> e.metadata["text_preview"]]

\* a search with threshold 0.0 and the default top_k has succeeded for the
\* emotion whose anchor is the text of the latest successful ingest
SearchedAfterAnchorIngest ==
    /\ response.op = "search_by_emotion"
    /\ response.status = 200
    /\ response.request["threshold"] = 0
    /\ response.request["top_k"] = DefaultTopK
    /\ ingestLog # << >>
    /\ Last(ingestLog).text = get_anchor(response.request["emotion"])

\* C11: after a successful ingest of a text equal to an emotion's anchor, the
\* next search for that emotion with threshold 0.0 and the default top_k
\* returns the ingested entry: the store holds an entry with the returned id
\* and the ingested text, and its match is among the results.
C11_IngestedAnchorIsFound ==
    SearchedAfterAnchorIngest =>
        \E i \in DOMAIN collection :
            /\ collection[i].id = Last(ingestLog).entry_id
            /\ collection[i].document = Last(ingestLog).text
            /\ \E n \in DOMAIN response.body["matches"] :
                  response.body["matches"][n] = ExactMatchOf(collection[i])

\* the step is an ingest in which the embedding call failed
IngestEmbeddingFailed ==
    /\ response = NoResponse
    /\ response'.op = "add_vent"
    /\ response'.status = 500
    /\ response'.body["error"] = "EmbeddingUnavailable"

\* C12: an ingest whose embedding call fails aborts: the caller gets the
\* error and no entry id, the store is exactly as it was, no put was issued
\* and the embedding call was made once.
C12_FailedEmbeddingAbortsIngest ==
    [][IngestEmbeddingFailed =>
          /\ response'.body["success"] = FALSE
          /\ "entry_id" \notin DOMAIN response'.body
          /\ collection' = collection
          /\ ingestLog' = ingestLog
          /\ response'.embeds = 1
          /\ response'.queries = 0]_vars

\* an ingest into a store that holds an entry has ended with the embedding
\* error
C12_Witness ==
    /\ response.op = "add_vent"
    /\ response.status = 500
    /\ response.body["error"] = "EmbeddingUnavailable"
    /\ response.embeds = 1
    /\ collection # << >>

\* C13: a search whose threshold lies outside [0, 1] or whose top_k is not
\* positive is rejected before the store is queried: it produces no match
\* list, empty or not.
C13_InvalidArgumentsRejected ==
    (/\ response.op = "search_by_emotion"
     /\ \/ response.request["threshold"] < 0
        \/ response.request["threshold"] > Unit
        \/ response.request["top_k"] <= 0) =>
        /\ response.status # 200
        /\ "matches" \notin DOMAIN response.body
        /\ response.queries = 0

-----------------------------------------------------------------------------
(* Properties of failure handling in the read operations *)

ReadOps ==
    {"search_by_emotion", "get_cohort_health", "check_crisis_flags",
     "flag_for_human_intervention"}

\* a gateway call that was set to fail has been made by the operation served
GatewayCallFailed ==
    \/ response.fault.embed > 0 /\ response.embeds >= response.fault.embed
    \/ response.fault.store /\ response.queries >= 1

\* C14: when an embedding call or a store call fails inside a search, a
\* cohort analysis or a crisis check (the k-th anchor embedding of an
\* analysis included), the operation ends in an error and returns no health
\* report and no match or flag list, partial or empty.
C14_NoSilentRecovery ==
    (response.op \in ReadOps /\ GatewayCallFailed) =>
        /\ response.status = 500
        /\ response.body["success"] = FALSE
        /\ DOMAIN response.body
              \cap {"matches", "flagged_users", "emotion_profile", "dominant_emotion",
                    "alert_level", "total_entries", "status", "count"} = {}

\* the embedding of the last of the seven anchors failed in a cohort
\* analysis, after six had succeeded
C14_Witness ==
    /\ response.op = "get_cohort_health"
    /\ response.fault.embed = Len(all_emotions)
    /\ response.embeds = Len(all_emotions)
    /\ response.status = 500

-----------------------------------------------------------------------------
(* Properties of the anchor registry *)

-----------------------------------------------------------------------------
(* Properties of the search result *)

SearchServed ==
    /\ response.op = "search_by_emotion"
    /\ response.status = 200

\* the similarity of every stored entry to the anchor of the emotion searched
AnchorSimilarity ==
    [i \in DOMAIN collection |->
        Unit - StoreDistance(collection[i].embedding,
                             Embedding(get_anchor(response.request["emotion"])))]

\* the entries among the k nearest neighbours of the anchor
KNearest(sim, k) ==
    {i \in DOMAIN sim : Cardinality({j \in DOMAIN sim : Before(sim, j, i)}) < k}

\* C16: the result of a search with threshold t and top_k k is exactly the
\* k nearest neighbours of the anchor whose similarity 1 - distance is >= t,
\* nearest first: at most k matches, none with similarity below t, none from
\* outside the k nearest, and the similarity never increases along the result.
C16_TopKThenThreshold ==
    SearchServed =>
        \A sim \in {AnchorSimilarity} :
        \A due \in {{i \in KNearest(sim, response.request["top_k"]) :
                        sim[i] >= response.request["threshold"]}} :
        \A place \in {[i \in due |-> 1 + Cardinality({j \in due : Before(sim, j, i)})]} :
            LET matches == response.body["matches"]
            IN  /\ Len(matches) = Cardinality(due)
                /\ Len(matches) <= response.request["top_k"]
                /\ \A i \in due :
                      /\ matches[place[i]].user_id = collection[i].metadata["user_id"]
                      /\ matches[place[i]].cohort_id = collection[i].metadata["cohort_id"]
                      /\ matches[place[i]].timestamp = collection[i].metadata["timestamp"]
                      /\ matches[place[i]].text_preview =
                            collection[i].metadata["text_preview"]
                      /\ matches[place[i]].similarity_score = Round4(sim[i])
                /\ \A m, n \in DOMAIN matches :
                      m < n => matches[m].similarity_score >= matches[n].similarity_score

\* a search for the single nearest entry has left out a stored entry that
\* clears the threshold
C16_Witness ==
    /\ SearchServed
    /\ response.request["top_k"] = 1
    /\ Len(response.body["matches"]) = 1
    /\ Cardinality({i \in DOMAIN collection :
                       AnchorSimilarity[i] >= response.request["threshold"]}) = 2

-----------------------------------------------------------------------------
(* Properties of the health report *)

\* a health report of a cohort that holds entries has been served
ReportServed ==
    /\ response.op = "get_cohort_health"
    /\ response.status = 200
    /\ "total_entries" \in DOMAIN response.body

RegistryOrder ==
    <<"anger", "sadness", "anxiety", "burnout", "loneliness", "overwhelm", "crisis">>

\* C17: the health report of a non-empty cohort holds an emotion profile
\* with one value for each of the seven anchors, a dominant emotion and an
\* alert level; the dominant emotion has the greatest value of the profile
\* and, among the anchors that share it, comes first in registry order.
C17_DominantIsFirstMaximum ==
    ReportServed =>
        LET profile == response.body["emotion_profile"]
            dominant == response.body["dominant_emotion"]
        IN  /\ DOMAIN profile = {RegistryOrder[n] : n \in DOMAIN RegistryOrder}
            /\ response.body["alert_level"] \in {"URGENT", "WARNING", "MONITOR", "STABLE"}
            /\ \E n \in DOMAIN RegistryOrder :
                  /\ dominant = RegistryOrder[n]
                  /\ \A m \in DOMAIN RegistryOrder :
                        profile[RegistryOrder[m]] <= profile[dominant]
                  /\ \A m \in 1..(n - 1) :
                        profile[RegistryOrder[m]] < profile[dominant]

\* a report in which sadness and anxiety share the greatest value names
\* sadness
C17_Witness ==
    /\ ReportServed
    /\ response.body["emotion_profile"]["sadness"] =
          response.body["emotion_profile"]["anxiety"]
    /\ response.body["dominant_emotion"] = "sadness"

-----------------------------------------------------------------------------
(* Properties of the store as a whole *)

\* C18: the store is append-only.  No step modifies or removes a stored
\* entry (id, vector, text and metadata stay as written); a search, a cohort
\* analysis, a crisis check, an anchor listing or a statistics request
\* leaves the store as it was; the entry count a statistics request reports
\* is the number of stored entries, which never decreases.
C18_StoreIsAppendOnly ==
    [][/\ Len(collection') >= Len(collection)
       /\ \A i \in DOMAIN collection : collection'[i] = collection[i]
       /\ response'.op \in ReadOps \cup {"get_emotion_anchors", "get_database_stats"} =>
             collection' = collection
       /\ (response'.op = "get_database_stats" /\ response'.status = 200) =>
             response'.body["total_entries"] = Len(collection')]_vars

\* an ingest whose id the store already held was answered as a success and
\* the stored entry was kept; the statistics then count what is stored
C18_Witness ==
    /\ response.op = "get_database_stats"
    /\ response.status = 200
    /\ response.body["total_entries"] >= 1
    /\ response.body["total_entries"] < Len(ingestLog)

-----------------------------------------------------------------------------
(* The emotion profile on its own: the centroid is drawn from the means of *)
(* one or two small integer vectors, the zero vector among them            *)

CentroidProbes ==
    {Vec(<<x, y>>, n) : x \in -3..3, y \in -3..3, n \in 1..2}

InitProfile ==
    /\ collection = << >>
    /\ now = 0
    /\ response = NoResponse
    /\ ingestLog = << >>
    /\ verdict = "none"
    /\ probe \in {[kind |-> "centroid", centroid |-> c] : c \in CentroidProbes}

\* the loop of analyze_cohort_health over the anchors, for the centroid drawn
ProfileOfCentroid ==
    /\ probe.kind = "centroid"
    /\ probe' = [kind |-> "centroid_profile", centroid |-> probe.centroid,
                 emotion_profile |-> EmotionProfile(probe.centroid)]
    /\ verdict' = Dominant(EmotionProfile(probe.centroid))
    /\ UNCHANGED <<collection, now, response, ingestLog>>

NextProfile ==
    \/ ProfileOfCentroid

SpecProfile == InitProfile /\ [][NextProfile]_vars

\* the profile value of a pair of which one vector has zero norm
ZeroNormSimilarity ==
    Round4(Unit - cosine_distance(Vec(<<0, 0>>, 1), Vec(Embedding(get_anchor("crisis")), 1)))

\* C19: the similarity recorded for a zero-norm pair is the minimum of the
\* similarity scale: no centroid obtains a lower profile value for any
\* anchor than a zero-norm centroid does.
C19_ZeroNormIsMinimum ==
    probe.kind = "centroid_profile" =>
        \A e \in DOMAIN probe.emotion_profile :
            probe.emotion_profile[e] >= ZeroNormSimilarity

-----------------------------------------------------------------------------
(* Properties of the stored preview *)

\* C20: the stored text preview is a function of the stored text only: the
\* text itself when it has at most 50 characters, else its first 50
\* characters followed by "..." (53 characters); a text of exactly 50
\* characters is stored without the marker.
C20_PreviewIsFunctionOfText ==
    \A i \in DOMAIN collection :
        LET text == collection[i].document
            preview == collection[i].metadata["text_preview"]
        IN  IF Len(text) <= 50
            THEN preview = text
            ELSE /\ Len(preview) = 53
                 /\ SubSeq(preview, 1, 50) = SubSeq(text, 1, 50)
                 /\ SubSeq(preview, 51, 53) = "..."

-----------------------------------------------------------------------------
(* Properties of a single match *)

\* C21: every match a search emits is self-consistent: its risk_level is the
\* level the risk table gives to its emitted similarity_score, the value
\* rounded to four decimals.
C21_RiskMatchesEmittedScore ==
    SearchServed =>
        \A n \in DOMAIN response.body["matches"] :
            response.body["matches"][n].risk_level =
                calculate_risk_level(response.body["matches"][n].similarity_score)

====
